---- MODULE Spec2Model ----
(***************************************************************************)
(* NotebookConcatConverter (src/client/activation/notebookConcatConverter  *)
(* .ts): the adapter that presents the cells of a notebook as one text     *)
(* document and translates positions, ranges, offsets and payloads between *)
(* the concatenated document and the cells.                                *)
(*                                                                         *)
(* Values.  A character is 1 (word character) or 0 (blank); a line is a    *)
(* sequence of characters; a cell document is a non-empty sequence of      *)
(* lines.  Position = [line, character], Range = [start, end], Location =  *)
(* [uri, range]; lines, characters and offsets are zero-based as in the    *)
(* code, sequences are one-based as in TLA+.                               *)
(***************************************************************************)
EXTENDS Integers, Sequences, FiniteSets, TLC

VARIABLES
    notebookCells,   \* notebookDoc.cells: the cells of the notebook, in order
    isDirty,         \* notebookDoc.isDirty
    engineCells,     \* the cells the concatenation engine holds
    isClosed,        \* concatDocument.isClosed
    pending,         \* cells touched by a notebook change the engine has not taken yet
    _version,        \* the adapter's _version
    notifications,   \* change notifications delivered so far
    call             \* the running call: operation, argument, result

vars == <<notebookCells, isDirty, engineCells, isClosed, pending, _version, notifications, call>>

-----------------------------------------------------------------------------
(* Bounds *)

MaxCells == 2

MaxVersion == 3

-----------------------------------------------------------------------------
(* Identities and cell contents *)

\* the adapter's synthetic identity (Uri.file(dummyFilePath))
dummyUri == "dummy"

\* an identity that never belongs to the notebook
ForeignUri == "foreign"

\* the identities cells of the notebook can have
CellUris == {"A", "B", "M"}

\* the language of a cell: "M" is a markdown cell, the others are code
CellLanguage(uri) == IF uri = "M" THEN "markdown" ELSE "python"

\* the selector the adapter is constructed with accepts python cells
selector == {"python"}

\* "ab"
DocOne == << <<1, 1>> >>

\* "a b\n"
DocTwo == << <<1, 0, 1>>, <<>> >>

Docs == {DocOne, DocTwo}

Position(line, character) == [line |-> line, character |-> character]

Range(start, end) == [start |-> start, end |-> end]

Location(uri, range) == [uri |-> uri, range |-> range]

Min(a, b) == IF a < b THEN a ELSE b

RECURSIVE SumSeq(_)
SumSeq(s) == IF s = <<>> THEN 0 ELSE s[1] + SumSeq(Tail(s))

-----------------------------------------------------------------------------
(* A cell's text document (vscode.TextDocument of one cell) *)

CellLineCount(doc) == Len(doc)

\* length of the text: the lines joined by "\n"
CellTextLength(doc) == SumSeq([i \in 1..Len(doc) |-> Len(doc[i])]) + (Len(doc) - 1)

\* offset of the first character of line `line` (zero-based)
CellLineStart(doc, line) == SumSeq([i \in 1..line |-> Len(doc[i]) + 1])

CellValidatePosition(doc, pos) ==
    IF pos.line >= Len(doc)
    THEN Position(Len(doc) - 1, Len(doc[Len(doc)]))
    ELSE Position(pos.line, Min(pos.character, Len(doc[pos.line + 1])))

CellValidateRange(doc, range) ==
    Range(CellValidatePosition(doc, range.start), CellValidatePosition(doc, range.end))

CellOffsetAt(doc, pos) ==
    LET p == CellValidatePosition(doc, pos)
    IN  CellLineStart(doc, p.line) + p.character

CellPositionAt(doc, offset) ==
    LET o == Min(offset, CellTextLength(doc))
        line == CHOOSE l \in 0..(Len(doc) - 1) :
                    /\ CellLineStart(doc, l) <= o
                    /\ o <= CellLineStart(doc, l) + Len(doc[l + 1])
    IN  Position(line, o - CellLineStart(doc, line))

\* the TextLine of the cell at a position
CellLineAt(doc, pos) ==
    LET p == CellValidatePosition(doc, pos)
    IN  [lineNumber |-> p.line,
         text |-> doc[p.line + 1],
         range |-> Range(Position(p.line, 0), Position(p.line, Len(doc[p.line + 1])))]

Undefined == [undefined |-> TRUE]

\* the word (maximal run of word characters) touching the position, if any
CellGetWordRangeAtPosition(doc, pos) ==
    LET p == CellValidatePosition(doc, pos)
        text == doc[p.line + 1]
        IsWord(s, e) == /\ s < e
                        /\ \A k \in (s + 1)..e : text[k] = 1
                        /\ (s = 0 \/ text[s] = 0)
                        /\ (e = Len(text) \/ text[e + 1] = 0)
        words == {w \in (0..Len(text)) \X (0..Len(text)) :
                      IsWord(w[1], w[2]) /\ w[1] <= p.character /\ p.character <= w[2]}
    IN  IF words = {}
        THEN Undefined
        ELSE LET w == CHOOSE w \in words : \A v \in words : w[1] <= v[1]
             IN  Range(Position(p.line, w[1]), Position(p.line, w[2]))

-----------------------------------------------------------------------------
(* The concatenation engine (vscode.NotebookConcatTextDocument) over the   *)
(* cells it holds, engineCells                                             *)

\* the cells of a notebook the engine takes: those the selector accepts
EngineSelect(cells) == SelectSeq(cells, LAMBDA c : CellLanguage(c.uri) \in selector)

cellLines == [i \in 1..Len(engineCells) |-> CellLineCount(engineCells[i].document)]

cellLengths == [i \in 1..Len(engineCells) |-> CellTextLength(engineCells[i].document) + 1]

\* sum of values[0..index], 0 for index = -1
getAccumulatedValue(values, index) == SumSeq(SubSeq(values, 1, index + 1))

\* the index (zero-based) of the value the accumulated value falls in, the
\* last one when it lies beyond the total, and what remains within it
getIndexOf(values, acc) ==
    LET inside == {i \in 0..(Len(values) - 1) : acc < getAccumulatedValue(values, i)}
        index == IF inside = {} THEN Len(values) - 1
                 ELSE CHOOSE i \in inside : \A j \in inside : i <= j
    IN  [index |-> index, remainder |-> acc - getAccumulatedValue(values, index - 1)]

\* the index (zero-based) of the cell with this identity, -1 when there is none
EngineIndexOf(uri) ==
    IF \E i \in 1..Len(engineCells) : engineCells[i].uri = uri
    THEN (CHOOSE i \in 1..Len(engineCells) : engineCells[i].uri = uri) - 1
    ELSE -1

EngineContains(uri) == EngineIndexOf(uri) >= 0

\* concatenated position (or range) -> Location in the owning cell
EngineLocationAtRange(range) ==
    LET startIdx == getIndexOf(cellLines, range.start.line)
        endIdx == IF range.start = range.end THEN startIdx
                  ELSE getIndexOf(cellLines, range.end.line)
        startCell == engineCells[startIdx.index + 1]
    IN  Location(startCell.uri,
                 CellValidateRange(startCell.document,
                     Range(Position(startIdx.remainder, range.start.character),
                           Position(endIdx.remainder, range.end.character))))

EngineLocationAt(position) == EngineLocationAtRange(Range(position, position))

\* Location -> concatenated position; (0, 0) for a cell the engine does not hold
EnginePositionAtLocation(location) ==
    LET idx == EngineIndexOf(location.uri)
    IN  IF idx >= 0
        THEN Position(getAccumulatedValue(cellLines, idx - 1) + location.range.start.line,
                      location.range.start.character)
        ELSE Position(0, 0)

\* concatenated position -> concatenated offset
EngineOffsetAt(position) ==
    LET idx == getIndexOf(cellLines, position.line)
    IN  getAccumulatedValue(cellLengths, idx.index - 1)
          + CellOffsetAt(engineCells[idx.index + 1].document,
                         Position(idx.remainder, position.character))

-----------------------------------------------------------------------------
(* Results of a call: a returned value or a thrown error *)

Ok(value) == [ok |-> TRUE, value |-> value]

Err(error) == [ok |-> FALSE, error |-> error]

\* what dereferencing `cell!` throws when find() found no cell
CellNotFound == Err("TypeError: Cannot read property 'document' of undefined")

\* the adapter as a document
this == [uri |-> dummyUri]

\* a hover or completions argument that is null or absent
Null == [kind |-> "null"]

-----------------------------------------------------------------------------
(* The adapter's operations *)

\* lineCount: cells.map(lineCount).reduce((p, c) => p + c), no initial value
lineCount ==
    IF notebookCells = <<>>
    THEN Err("TypeError: Reduce of empty array with no initial value")
    ELSE Ok(SumSeq([i \in 1..Len(notebookCells) |-> CellLineCount(notebookCells[i].document)]))

\* variant: asks the notebook instead of the engine
isCellOfDocument_Notebook(uri) == \E i \in 1..Len(notebookCells) : notebookCells[i].uri = uri

isCellOfDocument(uri) == EngineContains(uri)

\* variant: succeeds when there is nothing to save
save_CleanOk == IF isDirty THEN Err("Not implemented") ELSE Ok(TRUE)

save == Err("Not implemented")

\* notebookDoc.cells.find((c) => c.uri.toString() === uri.toString())
findCell(uri) ==
    IF \E i \in 1..Len(notebookCells) : notebookCells[i].uri = uri
    THEN notebookCells[CHOOSE i \in 1..Len(notebookCells) :
                           /\ notebookCells[i].uri = uri
                           /\ \A j \in 1..(i - 1) : notebookCells[j].uri # uri]
    ELSE Undefined

\* variant: reads the cell's line at the concatenated position
lineAt_Untranslated(posOrNumber) ==
    LET position == IF posOrNumber.kind = "number"
                    THEN Position(posOrNumber.n, 0)
                    ELSE posOrNumber.position
        location == EngineLocationAt(position)
        cell == findCell(location.uri)
    IN  IF cell = Undefined
        THEN CellNotFound
        ELSE Ok(CellLineAt(cell.document, position))

\* posOrNumber is [kind |-> "number", n] or [kind |-> "position", position]
lineAt(posOrNumber) ==
    LET position == IF posOrNumber.kind = "number"
                    THEN Position(posOrNumber.n, 0)
                    ELSE posOrNumber.position
        location == EngineLocationAt(position)
        cell == findCell(location.uri)
    IN  IF cell = Undefined
        THEN CellNotFound
        ELSE Ok(CellLineAt(cell.document, location.range.start))

\* variant: `cell?.document` instead of `cell!.document`
getWordRangeAtPosition_Optional(position) ==
    LET location == EngineLocationAt(position)
        cell == findCell(location.uri)
    IN  IF cell = Undefined
        THEN Ok(Undefined)
        ELSE Ok(CellGetWordRangeAtPosition(cell.document, location.range.start))

getWordRangeAtPosition(position) ==
    LET location == EngineLocationAt(position)
        cell == findCell(location.uri)
    IN  IF cell = Undefined
        THEN CellNotFound
        ELSE Ok(CellGetWordRangeAtPosition(cell.document, location.range.start))

getConcatDocument(cell) == IF isCellOfDocument(cell.uri) THEN this ELSE cell

\* variant: returns the cell-local position
toOutgoingPosition_Local(cell, position) == position

toOutgoingPosition(cell, position) ==
    EnginePositionAtLocation(Location(cell.uri, Range(position, position)))

toOutgoingRange(cell, cellRange) ==
    LET startPos == EnginePositionAtLocation(Location(cell.uri, Range(cellRange.start, cellRange.start)))
        endPos == EnginePositionAtLocation(Location(cell.uri, Range(cellRange.end, cellRange.end)))
    IN  Range(startPos, endPos)

toOutgoingOffset(cell, offset) ==
    LET position == CellPositionAt(cell.document, offset)
        overallPosition == EnginePositionAtLocation(Location(cell.uri, Range(position, position)))
    IN  EngineOffsetAt(overallPosition)

\* variant: copies the cell-local offset
toOutgoingContentChangeEvent_LocalOffset(cell, ev) ==
    [range |-> toOutgoingRange(cell, ev.range),
     rangeLength |-> ev.rangeLength,
     rangeOffset |-> ev.rangeOffset,
     text |-> ev.text]

toOutgoingContentChangeEvent(cell, ev) ==
    [range |-> toOutgoingRange(cell, ev.range),
     rangeLength |-> ev.rangeLength,
     rangeOffset |-> toOutgoingOffset(cell, ev.rangeOffset),
     text |-> ev.text]

toOutgoingChangeEvent(cellEvent) ==
    [document |-> getConcatDocument(cellEvent.document),
     contentChanges |-> [i \in 1..Len(cellEvent.contentChanges) |->
                            toOutgoingContentChangeEvent(cellEvent.document,
                                                         cellEvent.contentChanges[i])]]

toIncomingRange(range) ==
    LET startLoc == EngineLocationAt(range.start)
        endLoc == EngineLocationAt(range.end)
    IN  Range(startLoc.range.start, endLoc.range.end)

\* a hover is Null or [kind |-> "hover", contents, range], range Undefined or a Range
toIncomingHover(hover) ==
    IF hover # Null /\ hover.range # Undefined
    THEN [hover EXCEPT !.range = toIncomingRange(hover.range)]
    ELSE hover

\* variant: the replacing range is taken from the inserting range
toIncomingCompletion_SharedPair(item) ==
    IF item.range # Undefined
    THEN IF item.range.kind = "range"
         THEN [item EXCEPT !.range = [kind |-> "range",
                                      range |-> toIncomingRange(item.range.range)]]
         ELSE [item EXCEPT !.range = [kind |-> "pair",
                                      inserting |-> toIncomingRange(item.range.inserting),
                                      replacing |-> toIncomingRange(item.range.inserting)]]
    ELSE item

\* an item is [label, detail, range]; range is Undefined, [kind |-> "range", range] or
\* [kind |-> "pair", inserting, replacing]
toIncomingCompletion(item) ==
    IF item.range # Undefined
    THEN IF item.range.kind = "range"
         THEN [item EXCEPT !.range = [kind |-> "range",
                                      range |-> toIncomingRange(item.range.range)]]
         ELSE [item EXCEPT !.range = [kind |-> "pair",
                                      inserting |-> toIncomingRange(item.range.inserting),
                                      replacing |-> toIncomingRange(item.range.replacing)]]
    ELSE item

\* completions is Null, [kind |-> "array", items] or
\* [kind |-> "list", isIncomplete, items]
toIncomingCompletions(completions) ==
    IF completions # Null
    THEN IF completions.kind = "array"
         THEN [kind |-> "array",
               items |-> [i \in 1..Len(completions.items) |->
                             toIncomingCompletion(completions.items[i])]]
         ELSE [completions EXCEPT !.items =
                  [i \in 1..Len(completions.items) |->
                      toIncomingCompletion(completions.items[i])]]
    ELSE completions

\* variant: counts the cells that changed
onDidChange_PerCell(version) == version + pending

onDidChange(version) == version + 1

-----------------------------------------------------------------------------
(* Inputs *)

MaxChar == 3

\* concatenated positions: every line of the concatenated document and one
\* line past its end, every column up to MaxChar
InputPositions ==
    {Position(l, c) : l \in 0..SumSeq(cellLines), c \in 0..MaxChar}

\* cell-local positions
InputCellPositions == {Position(l, c) : l \in 0..1, c \in {0, 2}}

\* the ranges payloads carry: empty and non-empty ones, within a line and
\* across lines
InputRanges ==
    {Range(Position(0, 0), Position(0, 0)),
     Range(Position(0, 1), Position(0, 2)),
     Range(Position(1, 0), Position(1, 1)),
     Range(Position(0, 1), Position(2, 1)),
     Range(Position(2, 0), Position(2, MaxChar))}

ItemPlain == [label |-> "a", detail |-> 1, range |-> Undefined]

ItemRange == [label |-> "b", detail |-> 2,
              range |-> [kind |-> "range", range |-> Range(Position(1, 0), Position(1, 1))]]

ItemRangeTwo == [label |-> "c", detail |-> 1,
                 range |-> [kind |-> "range", range |-> Range(Position(0, 1), Position(2, 1))]]

ItemPair == [label |-> "d", detail |-> 2,
             range |-> [kind |-> "pair",
                        inserting |-> Range(Position(1, 0), Position(1, 1)),
                        replacing |-> Range(Position(1, 0), Position(2, MaxChar))]]

InputItemLists ==
    {<<>>, <<ItemPlain>>, <<ItemRange>>, <<ItemPair>>, <<ItemRange, ItemPlain>>,
     <<ItemPair, ItemRangeTwo>>, <<ItemPlain, ItemRangeTwo, ItemPair>>}

InputCompletions ==
    {Null}
      \cup {[kind |-> "array", items |-> items] : items \in InputItemLists}
      \cup {[kind |-> "list", isIncomplete |-> b, items |-> items] :
               b \in BOOLEAN, items \in InputItemLists}

InputHovers ==
    {Null}
      \cup {[kind |-> "hover", contents |-> "doc", range |-> r] :
               r \in {Undefined} \cup InputRanges}

\* the documents a change event can come from: a cell of the notebook or a
\* document foreign to it
EventDocuments ==
    {notebookCells[i] : i \in 1..Len(notebookCells)}
      \cup {[uri |-> ForeignUri, document |-> DocTwo]}

ChangeOne == [range |-> Range(Position(0, 1), Position(0, 2)),
              rangeLength |-> 1, rangeOffset |-> 1, text |-> "xy"]

ChangeTwo == [range |-> Range(Position(0, 2), Position(1, 0)),
              rangeLength |-> 2, rangeOffset |-> 2, text |-> ""]

ChangeThree == [range |-> Range(Position(1, 0), Position(1, 0)),
                rangeLength |-> 0, rangeOffset |-> 4, text |-> "x"]

InputChangeLists ==
    {<<>>, <<ChangeOne>>, <<ChangeThree>>, <<ChangeTwo, ChangeOne>>}

SeqsUpTo(S, n) == UNION {[1..k -> S] : k \in 0..n}

-----------------------------------------------------------------------------
(* State *)

\* the notebooks: up to MaxCells cells with distinct identities
Notebooks ==
    {cells \in SeqsUpTo([uri : CellUris, document : Docs], MaxCells) :
        \A i, j \in 1..Len(cells) : i # j => cells[i].uri # cells[j].uri}

Called(op, arg, result) == [op |-> op, arg |-> arg, result |-> result]

\* no call is running
Idle == Called("idle", Null, Ok(Null))

\* the state after construction: the engine holds the selected cells of the
\* notebook, _version = 1
Init ==
    /\ notebookCells \in Notebooks
    /\ isDirty = FALSE
    /\ engineCells = EngineSelect(notebookCells)
    /\ isClosed = FALSE
    /\ pending = 0
    /\ _version = 1
    /\ notifications = 0
    /\ call = Idle

\* the engine's locationAt and offsetAt are modelled over a non-empty cell set
EngineHasCells == engineCells # <<>>

-----------------------------------------------------------------------------
(* The notebook changes (the host); `pending` is the number of cells the   *)
(* change touched, until the engine has taken it                           *)

InsertAt(cells, i, cell) == SubSeq(cells, 1, i - 1) \o <<cell>> \o SubSeq(cells, i, Len(cells))

RemoveAt(cells, i) == SubSeq(cells, 1, i - 1) \o SubSeq(cells, i + 1, Len(cells))

CanChange == call = Idle /\ ~isClosed /\ pending = 0 /\ _version < MaxVersion

AddCell ==
    /\ CanChange
    /\ Len(notebookCells) < MaxCells
    /\ \E uri \in CellUris, doc \in Docs, i \in 1..(Len(notebookCells) + 1) :
          /\ \A j \in 1..Len(notebookCells) : notebookCells[j].uri # uri
          /\ notebookCells' = InsertAt(notebookCells, i, [uri |-> uri, document |-> doc])
    /\ pending' = 1
    /\ isDirty' = TRUE
    /\ UNCHANGED <<engineCells, isClosed, _version, notifications, call>>

RemoveCell ==
    /\ CanChange
    /\ \E i \in 1..Len(notebookCells) : notebookCells' = RemoveAt(notebookCells, i)
    /\ pending' = 1
    /\ isDirty' = TRUE
    /\ UNCHANGED <<engineCells, isClosed, _version, notifications, call>>

\* reordering: two neighbouring cells change places
MoveCell ==
    /\ CanChange
    /\ \E i \in 1..(Len(notebookCells) - 1) :
          notebookCells' = [notebookCells EXCEPT ![i] = notebookCells[i + 1],
                                                 ![i + 1] = notebookCells[i]]
    /\ pending' = 2
    /\ isDirty' = TRUE
    /\ UNCHANGED <<engineCells, isClosed, _version, notifications, call>>

EditCell ==
    /\ CanChange
    /\ \E i \in 1..Len(notebookCells), doc \in Docs :
          /\ doc # notebookCells[i].document
          /\ notebookCells' = [notebookCells EXCEPT ![i].document = doc]
    /\ pending' = 1
    /\ isDirty' = TRUE
    /\ UNCHANGED <<engineCells, isClosed, _version, notifications, call>>

\* the engine takes the change and notifies its subscriber, onDidChange
ChangeNotification ==
    /\ call = Idle
    /\ pending > 0
    /\ engineCells' = EngineSelect(notebookCells)
    /\ pending' = 0
    /\ _version' = onDidChange(_version)
    /\ notifications' = notifications + 1
    /\ UNCHANGED <<notebookCells, isDirty, isClosed, call>>

\* the host saves the notebook
SaveNotebook ==
    /\ call = Idle
    /\ ~isClosed
    /\ pending = 0
    /\ isDirty
    /\ isDirty' = FALSE
    /\ UNCHANGED <<notebookCells, engineCells, isClosed, pending, _version, notifications, call>>

\* the engine is closed: it delivers no notification any more
CloseEngine ==
    /\ call = Idle
    /\ ~isClosed
    /\ pending = 0
    /\ isClosed' = TRUE
    /\ UNCHANGED <<notebookCells, isDirty, engineCells, pending, _version, notifications, call>>

-----------------------------------------------------------------------------
(* Calls of the adapter: each runs to completion; `call` holds the last    *)
(* call, its argument and what it returned or threw, until the caller has  *)
(* taken it                                                                *)

Unchanged == UNCHANGED <<notebookCells, isDirty, engineCells, isClosed, pending, _version, notifications>>

GetVersion ==
    /\ call = Idle
    /\ call' = Called("version", Null, Ok(_version))
    /\ Unchanged

GetLineCount ==
    /\ call = Idle
    /\ call' = Called("lineCount", Null, lineCount)
    /\ Unchanged

Save ==
    /\ call = Idle
    /\ call' = Called("save", Null, save)
    /\ Unchanged

IsCellOfDocument ==
    /\ call = Idle
    /\ \E uri \in CellUris \cup {dummyUri, ForeignUri} :
          call' = Called("isCellOfDocument", uri, Ok(isCellOfDocument(uri)))
    /\ Unchanged

LineAt ==
    /\ call = Idle
    /\ EngineHasCells
    /\ \E posOrNumber \in {[kind |-> "number", n |-> n] : n \in 0..SumSeq(cellLines)}
                            \cup {[kind |-> "position", position |-> p] :
                                     p \in {q \in InputPositions : q.character \in {0, MaxChar}}} :
          call' = Called("lineAt", posOrNumber, lineAt(posOrNumber))
    /\ Unchanged

GetWordRangeAtPosition ==
    /\ call = Idle
    /\ EngineHasCells
    /\ \E position \in InputPositions :
          call' = Called("getWordRangeAtPosition", position, getWordRangeAtPosition(position))
    /\ Unchanged

ToOutgoingPosition ==
    /\ call = Idle
    /\ \E cell \in EventDocuments, position \in InputCellPositions :
          call' = Called("toOutgoingPosition", [cell |-> cell, position |-> position],
                         Ok(toOutgoingPosition(cell, position)))
    /\ Unchanged

ToOutgoingChangeEvent ==
    /\ call = Idle
    /\ EngineHasCells
    /\ \E document \in EventDocuments, contentChanges \in InputChangeLists :
          LET cellEvent == [document |-> document, contentChanges |-> contentChanges]
          IN  call' = Called("toOutgoingChangeEvent", cellEvent,
                             Ok(toOutgoingChangeEvent(cellEvent)))
    /\ Unchanged

ToIncomingHover ==
    /\ call = Idle
    /\ EngineHasCells
    /\ \E hover \in InputHovers :
          call' = Called("toIncomingHover", hover, Ok(toIncomingHover(hover)))
    /\ Unchanged

ToIncomingCompletions ==
    /\ call = Idle
    /\ EngineHasCells
    /\ \E completions \in InputCompletions :
          call' = Called("toIncomingCompletions", completions,
                         Ok(toIncomingCompletions(completions)))
    /\ Unchanged

\* the caller has taken the result (or the error)
Return ==
    /\ call # Idle
    /\ call' = Idle
    /\ Unchanged

Next ==
    \/ AddCell
    \/ RemoveCell
    \/ MoveCell
    \/ EditCell
    \/ ChangeNotification
    \/ SaveNotebook
    \/ CloseEngine
    \/ GetVersion
    \/ GetLineCount
    \/ Save
    \/ IsCellOfDocument
    \/ LineAt
    \/ GetWordRangeAtPosition
    \/ ToOutgoingPosition
    \/ ToOutgoingChangeEvent
    \/ ToIncomingHover
    \/ ToIncomingCompletions
    \/ Return

Spec == Init /\ [][Next]_vars

-----------------------------------------------------------------------------
(* What the properties are stated with: the concatenated document as the   *)
(* lines of the engine's cells one after another                           *)

RECURSIVE Flatten(_)
Flatten(docs) == IF docs = <<>> THEN <<>> ELSE docs[1] \o Flatten(Tail(docs))

\* the lines of the concatenated document
ConcatLines == Flatten([i \in 1..Len(engineCells) |-> engineCells[i].document])

\* a position inside the concatenated document
ValidPosition(p) ==
    /\ p.line < Len(ConcatLines)
    /\ p.character <= Len(ConcatLines[p.line + 1])

\* lines of the concatenated document before the k-th cell of the engine (k from 1)
LinesBefore(k) == SumSeq([i \in 1..(k - 1) |-> Len(engineCells[i].document)])

\* characters of the concatenated text before the k-th cell of the engine
CharsBefore(k) == SumSeq([i \in 1..(k - 1) |-> CellTextLength(engineCells[i].document) + 1])

\* the cell (k from 1) of the engine that owns line n of the concatenated document
OwnerOf(n) ==
    CHOOSE k \in 1..Len(engineCells) :
        LinesBefore(k) <= n /\ n < LinesBefore(k) + Len(engineCells[k].document)

NotebookUris == {notebookCells[i].uri : i \in 1..Len(notebookCells)}

PosLE(p, q) == p.line < q.line \/ (p.line = q.line /\ p.character <= q.character)

\* the engine has taken every change of the notebook
InSync == pending = 0

-----------------------------------------------------------------------------
(* C1 *)

\* C1: the version is 1 after construction and, whatever notifications and
\* calls have happened, 1 plus the number of change notifications delivered;
\* reading it returns that value.
C1_VersionCountsNotifications ==
    /\ _version = 1 + notifications
    /\ (call.op = "version" => call.result = Ok(1 + notifications))

\* two notifications have been delivered, one call to save() has just failed
C1_Witness ==
    /\ notifications = 2
    /\ _version = 3
    /\ call.op = "save"

-----------------------------------------------------------------------------
(* C2 *)

\* C2: reading lineCount returns the sum of the line counts of the cells the
\* notebook holds now, whatever their number.
C2_LineCountIsSum ==
    call.op = "lineCount" =>
        call.result = Ok(SumSeq([i \in 1..Len(notebookCells) |-> Len(notebookCells[i].document)]))

-----------------------------------------------------------------------------
(* C3 *)

\* C3: for every valid concatenated position P, toIncomingRange of the empty
\* range at P, then toOutgoingPosition of its start with the cell the engine
\* resolves P to, gives P back.  (The translations read the engine's cells
\* only, which no call changes: the states before a call and after a
\* toOutgoingPosition cover every state of the engine.)
C3_RoundTrip ==
    (EngineHasCells /\ call.op \in {"idle", "toOutgoingPosition"}) =>
        LET lines == ConcatLines
        IN  \A l \in 0..(Len(lines) - 1) :
                \A c \in 0..Min(MaxChar, Len(lines[l + 1])) :
                    LET P == Position(l, c)
                        cell == [uri |-> EngineLocationAt(P).uri]
                    IN  toOutgoingPosition(cell, toIncomingRange(Range(P, P)).start) = P

\* toOutgoingPosition has just returned a position P beyond the first cell
\* for the cell and the local position that toIncomingRange gives for P
C3_Witness ==
    /\ call.op = "toOutgoingPosition"
    /\ Len(engineCells) >= 2
    /\ \E P \in InputPositions :
          /\ ValidPosition(P)
          /\ P.line >= Len(engineCells[1].document)
          /\ EngineLocationAt(P).uri = call.arg.cell.uri
          /\ toIncomingRange(Range(P, P)).start = call.arg.position
          /\ call.result = Ok(P)

-----------------------------------------------------------------------------
(* C4 *)

\* C4 as stated: isCellOfDocument(id) is true exactly when id is the identity
\* of one of the notebook's current cells.
C4_IffNotebookCell ==
    call.op = "isCellOfDocument" =>
        (call.result.value <=> call.arg \in NotebookUris)

\* C4 amended: isCellOfDocument(id) is true exactly when the engine holds the
\* cell: once the engine has taken the notebook's last change, when id is a
\* current cell of the notebook that the selector accepts; it is false for
\* the synthetic identity and for a foreign identity.
C4_IffSelectedCell ==
    call.op = "isCellOfDocument" =>
        /\ call.result.ok
        /\ (InSync => (call.result.value <=>
                          (call.arg \in NotebookUris /\ CellLanguage(call.arg) \in selector)))
        /\ (call.arg \in {dummyUri, ForeignUri} => call.result.value = FALSE)

\* isCellOfDocument has just answered false for a cell of the notebook that
\* the selector rejects, after the notebook changed
C4_Witness ==
    /\ call.op = "isCellOfDocument"
    /\ notifications >= 1
    /\ InSync
    /\ call.arg \in NotebookUris
    /\ CellLanguage(call.arg) \notin selector
    /\ call.result = Ok(FALSE)
    /\ \E i \in 1..Len(engineCells) : TRUE

-----------------------------------------------------------------------------
(* C5 *)

\* the position lineAt works with
NormalizedPosition(posOrNumber) ==
    IF posOrNumber.kind = "number" THEN Position(posOrNumber.n, 0) ELSE posOrNumber.position

\* C5: lineAt of a line number n or of a position on line n of the
\* concatenated document returns the line of the owning cell: its text is
\* line n of the concatenated document and its number and range are local to
\* the cell; a bare number is treated as column 0 of that line.
C5_LineAtOwningCell ==
    (call.op = "lineAt" /\ InSync) =>
        LET n == NormalizedPosition(call.arg).line
        IN  n < Len(ConcatLines) =>
                LET k == OwnerOf(n)
                    local == n - LinesBefore(k)
                IN  /\ call.result =
                           Ok([lineNumber |-> local,
                               text |-> ConcatLines[n + 1],
                               range |-> Range(Position(local, 0),
                                               Position(local, Len(ConcatLines[n + 1])))])
                    /\ call.result.value.text = findCell(engineCells[k].uri).document[local + 1]
                    /\ call.result = lineAt([kind |-> "position", position |-> Position(n, 0)])

\* two one-line cells A and B: lineAt(1) has just returned line 0 of cell B
C5_Witness ==
    /\ call.op = "lineAt"
    /\ InSync
    /\ Len(notebookCells) = 2
    /\ notebookCells[1] = [uri |-> "A", document |-> DocOne]
    /\ notebookCells[2] = [uri |-> "B", document |-> DocOne]
    /\ call.arg = [kind |-> "number", n |-> 1]
    /\ call.result = Ok(CellLineAt(notebookCells[2].document, Position(0, 0)))
    /\ call.result.value.lineNumber = 0

-----------------------------------------------------------------------------
(* C6 *)

\* C6: a word range that getWordRangeAtPosition(P) returns for a position P
\* inside a cell is a range of the concatenated document that contains P.
C6_WordRangeContainsPosition ==
    (/\ call.op = "getWordRangeAtPosition"
     /\ InSync
     /\ ValidPosition(call.arg)
     /\ call.result.ok
     /\ call.result.value # Undefined) =>
        /\ PosLE(call.result.value.start, call.arg)
        /\ PosLE(call.arg, call.result.value.end)

-----------------------------------------------------------------------------
(* C7 *)

\* the engine resolves the position to a cell the notebook does not hold
Desynchronized(position) == EngineLocationAt(position).uri \notin NotebookUris

\* C7: when the engine resolves the position to a cell that is none of the
\* notebook's cells, lineAt and getWordRangeAtPosition throw and leave the
\* adapter's state as it was.
C7_MissingCellIsFatal ==
    [][(call.op = "idle" /\ call'.op \in {"lineAt", "getWordRangeAtPosition"}) =>
          LET position == IF call'.op = "lineAt" THEN NormalizedPosition(call'.arg)
                          ELSE call'.arg
          IN  Desynchronized(position) =>
                  /\ call'.result = CellNotFound
                  /\ ~call'.result.ok
                  /\ _version' = _version
                  /\ notifications' = notifications
                  /\ engineCells' = engineCells
                  /\ notebookCells' = notebookCells]_vars

\* a cell was removed from the notebook, the engine still holds it, and a
\* query that resolved to it has just thrown
C7_Witness ==
    /\ call.op \in {"lineAt", "getWordRangeAtPosition"}
    /\ ~InSync
    /\ Len(engineCells) > Len(notebookCells)
    /\ call.result = CellNotFound

-----------------------------------------------------------------------------
(* C8 *)

\* C8: save() throws in every state and changes nothing.
C8_SaveAlwaysFails ==
    [][(call.op = "idle" /\ call'.op = "save") =>
          /\ call'.result = Err("Not implemented")
          /\ ~call'.result.ok
          /\ _version' = _version
          /\ notifications' = notifications
          /\ isDirty' = isDirty
          /\ isClosed' = isClosed]_vars

\* save() has just thrown on a clean notebook whose engine is closed, after
\* a notification
C8_Witness ==
    /\ call.op = "save"
    /\ ~call.result.ok
    /\ ~isDirty
    /\ isClosed
    /\ _version > 1

-----------------------------------------------------------------------------
(* C9 *)

\* the cell-local position of a concatenated position: the line within the
\* owning cell, the column cut at the end of the line; the end of the last
\* cell for a line past the end of the document
LocalOf(p) ==
    IF p.line < Len(ConcatLines)
    THEN Position(p.line - LinesBefore(OwnerOf(p.line)),
                  Min(p.character, Len(ConcatLines[p.line + 1])))
    ELSE LET last == engineCells[Len(engineCells)].document
         IN  Position(Len(last) - 1, Len(last[Len(last)]))

IncomingImage(range) == Range(LocalOf(range.start), LocalOf(range.end))

\* the item `b` is the item `a` with nothing but its range rewritten
SameButRange(a, b) ==
    /\ DOMAIN b = DOMAIN a
    /\ \A f \in DOMAIN a \ {"range"} : b[f] = a[f]
    /\ (a.range = Undefined => b = a)
    /\ (a.range # Undefined /\ a.range.kind = "range" =>
           b.range = [kind |-> "range", range |-> IncomingImage(a.range.range)])
    /\ (a.range # Undefined /\ a.range.kind = "pair" =>
           b.range = [kind |-> "pair",
                      inserting |-> IncomingImage(a.range.inserting),
                      replacing |-> IncomingImage(a.range.replacing)])

\* C9: toIncomingCompletions returns a null input unchanged; otherwise the
\* result has the input's fields with the same values except items, as many
\* items in the same order, and each item differs from the input item in
\* nothing but its range: a simple range becomes its cell-local image, the
\* two ranges of a pair are rewritten independently, an item without a range
\* is unchanged.
C9_OnlyRangesChange ==
    call.op = "toIncomingCompletions" =>
        /\ call.result.ok
        /\ (call.arg = Null => call.result.value = Null)
        /\ (call.arg # Null =>
               LET in == call.arg
                   out == call.result.value
               IN  /\ DOMAIN out = DOMAIN in
                   /\ \A f \in DOMAIN in \ {"items"} : out[f] = in[f]
                   /\ Len(out.items) = Len(in.items)
                   /\ \A i \in 1..Len(in.items) : SameButRange(in.items[i], out.items[i]))

\* a wrapper of three items (none, simple range, pair) has just been
\* translated against two cells, and a range did change
C9_Witness ==
    /\ call.op = "toIncomingCompletions"
    /\ Len(engineCells) = 2
    /\ call.arg = [kind |-> "list", isIncomplete |-> TRUE,
                   items |-> <<ItemPlain, ItemRangeTwo, ItemPair>>]
    /\ call.result.value.isIncomplete
    /\ call.result.value.items[1] = ItemPlain
    /\ call.result.value.items[3].range.inserting # ItemPair.range.inserting
    /\ call.result.value.items[3].range.replacing # call.result.value.items[3].range.inserting

-----------------------------------------------------------------------------
(* C10 *)

EngineUris == {engineCells[i].uri : i \in 1..Len(engineCells)}

\* the concatenated position of a position of a cell: the lines of the cells
\* before it added; (0, 0) for a cell the engine does not hold
OutgoingImage(uri, p) ==
    IF uri \in EngineUris
    THEN LET k == CHOOSE k \in 1..Len(engineCells) : engineCells[k].uri = uri
         IN  Position(LinesBefore(k) + p.line, p.character)
    ELSE Position(0, 0)

\* the records of the outgoing event: as many, in order, text and rangeLength
\* copied, range and rangeOffset translated
ContentChangesTranslated(in, out) ==
    /\ Len(out.contentChanges) = Len(in.contentChanges)
    /\ \A i \in 1..Len(in.contentChanges) :
          LET ev == in.contentChanges[i]
              res == out.contentChanges[i]
              uri == in.document.uri
          IN  /\ DOMAIN res = {"range", "rangeLength", "rangeOffset", "text"}
              /\ res.text = ev.text
              /\ res.rangeLength = ev.rangeLength
              /\ res.range = Range(OutgoingImage(uri, ev.range.start),
                                   OutgoingImage(uri, ev.range.end))
              /\ res.rangeOffset =
                     EngineOffsetAt(OutgoingImage(uri, CellPositionAt(in.document.document,
                                                                      ev.rangeOffset)))
              /\ ((InSync /\ uri \in EngineUris) =>
                     LET k == CHOOSE k \in 1..Len(engineCells) : engineCells[k].uri = uri
                     IN  res.rangeOffset =
                             CharsBefore(k) + Min(ev.rangeOffset,
                                                  CellTextLength(in.document.document)))

\* C10 as stated: the outgoing event's document is the adapter when the
\* event's document is a cell of this notebook and the event's document
\* otherwise, and its records are the input's, translated.
C10_DocumentOfNotebookCell ==
    call.op = "toOutgoingChangeEvent" =>
        /\ call.result.value.document =
               (IF call.arg.document.uri \in NotebookUris THEN this ELSE call.arg.document)
        /\ ContentChangesTranslated(call.arg, call.result.value)

\* C10 amended: the outgoing event's document is the adapter when the engine
\* holds the event's document (once the engine has taken the notebook's last
\* change: when it is a cell of the notebook that the selector accepts) and
\* the event's document otherwise, and its records are the input's,
\* translated.
C10_DocumentOfSelectedCell ==
    call.op = "toOutgoingChangeEvent" =>
        /\ call.result.ok
        /\ call.result.value.document =
               (IF call.arg.document.uri \in EngineUris THEN this ELSE call.arg.document)
        /\ (InSync =>
               (call.result.value.document = this <=>
                   /\ call.arg.document.uri \in NotebookUris
                   /\ CellLanguage(call.arg.document.uri) \in selector))
        /\ ContentChangesTranslated(call.arg, call.result.value)

\* an event of two records from the second of two cells has just been
\* translated: the document is the adapter, the offset moved
C10_Witness ==
    /\ call.op = "toOutgoingChangeEvent"
    /\ InSync
    /\ Len(engineCells) = 2
    /\ call.arg.document.uri = engineCells[2].uri
    /\ call.arg.contentChanges = <<ChangeTwo, ChangeOne>>
    /\ call.result.value.document = this
    /\ call.result.value.contentChanges[2].rangeOffset > ChangeOne.rangeOffset
    /\ call.result.value.contentChanges[2].text = "xy"

====
